---- MODULE Spec2Model ----
(***************************************************************************)
(* Appointment dashboard: the AppointmentManagementView component (its     *)
(* state, its derived lists and its status-update lifecycle), the API      *)
(* client it calls and the appointment store behind it.                    *)
(*                                                                         *)
(* Text values (names, dates, times, queries) are sequences of one-        *)
(* character strings, so that parsing, padding, lower-casing and substring *)
(* search are computed character by character.                             *)
(***************************************************************************)
EXTENDS Integers, Sequences, FiniteSets, TLC

\* ------------------------------------------------------------------ bounds
\* number of rows held by the store
NumAppts == 2
\* number of handleStatusUpdate invocations in one run
MaxCalls == 2
\* how many months the calendar is navigated away from the month of today
MaxMonthSpan == 2
\* largest collection the derived views are computed from
MaxLen == 2

VARIABLES
    APPOINTMENTS,   \* the store: sequence of rows in the wire shape
    appointments,   \* useState([]): the component's working copy
    isLoading,      \* useState(false)
    error,          \* useState(null)
    fetchPc,        \* position of the mount effect's fetchData()
    fetchData,      \* rows carried by the initial GET response
    calls,          \* one record per handleStatusUpdate invocation
    nextCall,       \* number of invocations issued so far
    selectedDate,   \* useState(null)
    activeTab,      \* useState('Upcoming')
    searchQuery,    \* useState('')
    statusFilter,   \* useState('All Status')
    doctorFilter,   \* useState('All Doctors')
    currentMonth,   \* useState(new Date()): the Date whose month the calendar shows
    today,          \* getTodayStr() as read by the render
    currentView     \* App's useState('appointments'): the view that is mounted

storeVars == <<APPOINTMENTS>>
loadVars == <<isLoading, error, fetchPc, fetchData, currentView>>
callVars == <<calls, nextCall>>
filterVars == <<selectedDate, activeTab, searchQuery, statusFilter, doctorFilter,
                currentMonth, today>>
vars == <<APPOINTMENTS, appointments, isLoading, error, fetchPc, fetchData,
          calls, nextCall, selectedDate, activeTab, searchQuery, statusFilter,
          doctorFilter, currentMonth, today, currentView>>

\* ------------------------------------------------------------------ text
Digits == <<"0", "1", "2", "3", "4", "5", "6", "7", "8", "9">>

DigitVal(c) == CHOOSE d \in 0..9 : Digits[d + 1] = c

RECURSIVE ToInt(_)
ToInt(s) ==
    IF s = <<>> THEN 0
    ELSE ToInt(SubSeq(s, 1, Len(s) - 1)) * 10 + DigitVal(s[Len(s)])

\* String(n).padStart(2, '0') for 0 <= n <= 99
padStart2(n) ==
    IF n < 10 THEN <<"0", Digits[n + 1]>>
    ELSE <<Digits[(n \div 10) + 1], Digits[(n % 10) + 1]>>

\* `${year}` for a four-digit year
YearStr(y) ==
    <<Digits[(y \div 1000) + 1], Digits[((y \div 100) % 10) + 1],
      Digits[((y \div 10) % 10) + 1], Digits[(y % 10) + 1]>>

\* `${year}-${String(month + 1).padStart(2, '0')}-${String(day).padStart(2, '0')}`
\* with m = month + 1
IsoDate(y, m, d) == YearStr(y) \o <<"-">> \o padStart2(m) \o <<"-">> \o padStart2(d)

\* "HH:MM"
HhMm(h, mi) == padStart2(h) \o <<":">> \o padStart2(mi)

NoDate == <<>>      \* null selectedDate
NoError == <<>>     \* null error

\* ------------------------------------------------------------------ dates
\* Days from 1970-01-01 to the civil date y-m-d (proleptic Gregorian, UTC).
DaysFromCivil(y, m, d) ==
    LET yy  == IF m <= 2 THEN y - 1 ELSE y
        era == yy \div 400
        yoe == yy - era * 400
        mp  == IF m > 2 THEN m - 3 ELSE m + 9
        doy == ((153 * mp + 2) \div 5) + d - 1
        doe == yoe * 365 + (yoe \div 4) - (yoe \div 100) + doy
    IN  era * 146097 + doe - 719468

\* new Date(dateStr).getTime() for a date-only ISO string "YYYY-MM-DD", which
\* JavaScript reads as UTC midnight.  The unit is one day (86 400 000 ms): the
\* millisecond value exceeds 32-bit integers, and every use of the result is a
\* difference whose sign alone is read.
DateGetTime(dateStr) ==
    DaysFromCivil(ToInt(SubSeq(dateStr, 1, 4)),
                  ToInt(SubSeq(dateStr, 6, 7)),
                  ToInt(SubSeq(dateStr, 9, 10)))

\* export function compareDates(date1, date2)
compareDates(date1, date2) == DateGetTime(date1) - DateGetTime(date2)

\* The civil date y-m-d (m in 1..12) that lies z days after 1970-01-01.
CivilFromDays(z) ==
    LET zz  == z + 719468
        era == zz \div 146097
        doe == zz - era * 146097
        yoe == (doe - (doe \div 1460) + (doe \div 36524) - (doe \div 146096)) \div 365
        doy == doe - (365 * yoe + (yoe \div 4) - (yoe \div 100))
        mp  == (5 * doy + 2) \div 153
        d   == doy - ((153 * mp + 2) \div 5) + 1
        m   == IF mp < 10 THEN mp + 3 ELSE mp - 9
    IN  [y |-> yoe + era * 400 + (IF m <= 2 THEN 1 ELSE 0), m |-> m, d |-> d]

\* A Date object is held by its local calendar fields: year, month (0..11) and
\* date (day of the month); its time of day plays no part in the calendar.
\* new Date(year, month, day): month and day outside their ranges carry over
\* (month 12 is January of the next year, day 0 the last day of the month before).
NewDate(year, month, day) ==
    LET first == DaysFromCivil(year + (month \div 12), (month % 12) + 1, 1)
        c     == CivilFromDays(first + day - 1)
    IN  [year |-> c.y, month |-> c.m - 1, date |-> c.d]

\* Date.prototype.getDay: 0 = Sunday (1970-01-01 was a Thursday)
getDay(dt) == (DaysFromCivil(dt.year, dt.month + 1, dt.date) + 4) % 7

\* Date.prototype.setMonth(month): the other fields are kept, and the result
\* is normalised as by new Date(year, month, date)
setMonth(dt, month) == NewDate(dt.year, month, dt.date)

\* new Date() read on the day whose ISO form is dateStr
DateOn(dateStr) ==
    [year |-> ToInt(SubSeq(dateStr, 1, 4)),
     month |-> ToInt(SubSeq(dateStr, 6, 7)) - 1,
     date |-> ToInt(SubSeq(dateStr, 9, 10))]

\* ------------------------------------------------------------------ data
Statuses == {"Scheduled", "Confirmed", "Completed", "Cancelled"}

AllStatus == "All Status"
AllDoctors == <<"A", "l", "l", " ", "D", "o", "c", "t", "o", "r", "s">>

DrChen == <<"D", "r", ".", " ", "C", "h", "e", "n">>
DrWhite == <<"D", "r", ".", " ", "W", "h", "i", "t", "e">>
Sarah == <<"S", "a", "r", "a", "h">>
Robert == <<"R", "o", "b", "e", "r", "t">>
Emma == <<"E", "m", "m", "a">>
Review == <<"R", "e", "v", "i", "e", "w">>
Checkup == <<"C", "h", "e", "c", "k", "-", "u", "p">>
NoText == <<>>      \* a null or empty text field of a row

LoadError == <<"Failed to load appointments. Please check if the backend server is running.">>
UpdateAlert == "Failed to update appointment status"

\* Rows as the backend serves them (snake-cased wire shape); the status of a
\* row is what a run changes, the other fields are fixed per id.
SeedRows ==
    << [id |-> 1, patient_name |-> Sarah, appointment_date |-> IsoDate(2025, 12, 15),
        appointment_time |-> HhMm(9, 0), duration |-> 30, doctor_name |-> DrChen,
        status |-> "Confirmed", mode |-> "In-Person", reason |-> Review],
       [id |-> 2, patient_name |-> Robert, appointment_date |-> IsoDate(2025, 12, 15),
        appointment_time |-> HhMm(14, 0), duration |-> 45, doctor_name |-> DrWhite,
        status |-> "Scheduled", mode |-> "Video Call", reason |-> NoText],
       [id |-> 3, patient_name |-> Emma, appointment_date |-> IsoDate(2026, 1, 2),
        appointment_time |-> HhMm(10, 30), duration |-> 60, doctor_name |-> DrChen,
        status |-> "Completed", mode |-> "In-Person", reason |-> Checkup],
       [id |-> 4, patient_name |-> Robert, appointment_date |-> IsoDate(2025, 11, 30),
        appointment_time |-> HhMm(9, 0), duration |-> 30, doctor_name |-> DrWhite,
        status |-> "Cancelled", mode |-> "Video Call", reason |-> Review] >>

SeedRow(i) == [SeedRows[((i - 1) % Len(SeedRows)) + 1] EXCEPT !.id = i]

StoreIds == 1..NumAppts
\* an id no row of the store carries
AbsentId == NumAppts + 1
CallIds == 1..MaxCalls

\* ------------------------------------------------------------------ API client + store
\* data.map(apt => ({ id: apt.id, name: apt.patient_name, ... })): wire shape to
\* the component's shape.  `apt.reason || ''` maps a null and an empty reason
\* alike to the empty text, which NoText stands for.
transformedData(data) ==
    [k \in 1..Len(data) |->
        [id |-> data[k].id,
         name |-> data[k].patient_name,
         date |-> data[k].appointment_date,
         time |-> data[k].appointment_time,
         duration |-> data[k].duration,
         doctorName |-> data[k].doctor_name,
         status |-> data[k].status,
         mode |-> data[k].mode,
         reason |-> IF data[k].reason = NoText THEN <<>> ELSE data[k].reason]]

\* getAppointments() with no date/status filter: copies of every row
StoreGetAppointments == [k \in 1..Len(APPOINTMENTS) |-> APPOINTMENTS[k]]

\* APPOINTMENTS.find(apt => apt.id === appointmentId)
StoreHas(appointmentId) == \E k \in 1..Len(APPOINTMENTS) : APPOINTMENTS[k].id = appointmentId

\* appointment.status = newStatus on the row found
StoreSetStatus(appointmentId, newStatus) ==
    [k \in 1..Len(APPOINTMENTS) |->
        IF APPOINTMENTS[k].id = appointmentId
        THEN [APPOINTMENTS[k] EXCEPT !.status = newStatus]
        ELSE APPOINTMENTS[k]]

OptimisticApply_AllRows(prev, appointmentId, newStatus) ==
    [k \in 1..Len(prev) |-> [prev[k] EXCEPT !.status = newStatus]]

OptimisticApply_Deferred(prev, appointmentId, newStatus) == prev

\* prev.map(apt => apt.id === appointmentId ? { ...apt, status: newStatus } : apt)
OptimisticApply(prev, appointmentId, newStatus) ==
    [k \in 1..Len(prev) |->
        IF prev[k].id = appointmentId
        THEN [prev[k] EXCEPT !.status = newStatus]
        ELSE prev[k]]

\* One handleStatusUpdate invocation.  pc is its position; err is the error the
\* awaited PUT rejected with; caught tells that the catch block was entered;
\* alerted that alert('Failed to update appointment status') ran; threw that
\* the invocation ended by rejecting; doneAt is its rank in the order in which
\* the invocations ended (0 while it runs); puts and gets count the PUT and
\* GET requests it has sent.
IdleCall == [pc |-> "idle", id |-> 0, status |-> "", data |-> <<>>, err |-> "",
             caught |-> FALSE, alerted |-> FALSE, threw |-> FALSE, doneAt |-> 0,
             puts |-> 0, gets |-> 0]

\* ------------------------------------------------------------------ text operations
UpperCase == <<"A", "B", "C", "D", "E", "F", "G", "H", "I", "J", "K", "L", "M",
               "N", "O", "P", "Q", "R", "S", "T", "U", "V", "W", "X", "Y", "Z">>
LowerCase == <<"a", "b", "c", "d", "e", "f", "g", "h", "i", "j", "k", "l", "m",
               "n", "o", "p", "q", "r", "s", "t", "u", "v", "w", "x", "y", "z">>

LowerChar(c) ==
    IF \E k \in 1..Len(UpperCase) : UpperCase[k] = c
    THEN LowerCase[CHOOSE k \in 1..Len(UpperCase) : UpperCase[k] = c]
    ELSE c

\* String.prototype.toLowerCase
toLowerCase(s) == [k \in 1..Len(s) |-> LowerChar(s[k])]

IsSpace(c) == c = " "

\* String.prototype.trim
RECURSIVE trim(_)
trim(s) ==
    IF s = <<>> THEN s
    ELSE IF IsSpace(s[1]) THEN trim(Tail(s))
    ELSE IF IsSpace(s[Len(s)]) THEN trim(SubSeq(s, 1, Len(s) - 1))
    ELSE s

\* String.prototype.includes
includes(s, q) ==
    \E i \in 0..(Len(s) - Len(q)) : SubSeq(s, i + 1, i + Len(q)) = q

\* ------------------------------------------------------------------ derived list
\* Array.prototype.filter is SelectSeq: the elements kept, in their order.
TabFilter_PastInclusive(tab, list) ==
    IF tab = "Today" THEN LET K(apt) == apt.date = today IN SelectSeq(list, K)
    ELSE IF tab = "Upcoming"
         THEN LET K(apt) == compareDates(apt.date, today) >= 0 IN SelectSeq(list, K)
    ELSE IF tab = "Past"
         THEN LET K(apt) == compareDates(apt.date, today) <= 0 IN SelectSeq(list, K)
    ELSE list

TabFilter_UpcomingStrict(tab, list) ==
    IF tab = "Today" THEN LET K(apt) == apt.date = today IN SelectSeq(list, K)
    ELSE IF tab = "Upcoming"
         THEN LET K(apt) == compareDates(apt.date, today) > 0 IN SelectSeq(list, K)
    ELSE IF tab = "Past"
         THEN LET K(apt) == compareDates(apt.date, today) < 0 IN SelectSeq(list, K)
    ELSE list

\* "Apply tab-based date filtering", as a function of the tab it reads
TabFilter(tab, list) ==
    IF tab = "Today" THEN LET K(apt) == apt.date = today IN SelectSeq(list, K)
    ELSE IF tab = "Upcoming"
         THEN LET K(apt) == compareDates(apt.date, today) >= 0 IN SelectSeq(list, K)
    ELSE IF tab = "Past"
         THEN LET K(apt) == compareDates(apt.date, today) < 0 IN SelectSeq(list, K)
    ELSE list

DateFilter_Dropped(list) == list

\* "Apply date filter if a specific date is selected"
DateFilter(list) ==
    IF selectedDate # NoDate
    THEN LET K(apt) == apt.date = selectedDate IN SelectSeq(list, K)
    ELSE list

SearchFilter_CaseSensitive(list) ==
    IF trim(searchQuery) # <<>>
    THEN LET query == searchQuery
             K(apt) == \/ includes(apt.name, query)
                       \/ includes(apt.doctorName, query)
                       \/ includes(apt.reason, query)
         IN  SelectSeq(list, K)
    ELSE list

\* "Apply search filter": the guard trims, the query matched is
\* searchQuery.toLowerCase() (not trimmed).
SearchFilter(list) ==
    IF trim(searchQuery) # <<>>
    THEN LET query == toLowerCase(searchQuery)
             K(apt) == \/ includes(toLowerCase(apt.name), query)
                       \/ includes(toLowerCase(apt.doctorName), query)
                       \/ includes(toLowerCase(apt.reason), query)
         IN  SelectSeq(list, K)
    ELSE list

StatusFilter_Dropped(list) == list

\* "Apply status filter"
StatusFilter(list) ==
    IF statusFilter # AllStatus
    THEN LET K(apt) == apt.status = statusFilter IN SelectSeq(list, K)
    ELSE list

DoctorFilter_Dropped(list) == list

\* "Apply doctor filter"
DoctorFilter(list) ==
    IF doctorFilter # AllDoctors
    THEN LET K(apt) == apt.doctorName = doctorFilter IN SelectSeq(list, K)
    ELSE list

\* Collation order of the characters a time of day is written with
\* (punctuation sorts before digits).
TimeCollation == <<" ", ":", "0", "1", "2", "3", "4", "5", "6", "7", "8", "9">>

CollationRank(c) == CHOOSE k \in 1..Len(TimeCollation) : TimeCollation[k] = c

\* String.prototype.localeCompare on such strings: -1, 0 or 1
RECURSIVE localeCompare(_, _)
localeCompare(a, b) ==
    IF a = <<>> /\ b = <<>> THEN 0
    ELSE IF a = <<>> THEN -1
    ELSE IF b = <<>> THEN 1
    ELSE IF CollationRank(a[1]) < CollationRank(b[1]) THEN -1
    ELSE IF CollationRank(a[1]) > CollationRank(b[1]) THEN 1
    ELSE localeCompare(Tail(a), Tail(b))

\* (a, b) => { dateCompare = compareDates(a.date, b.date);
\*             if (dateCompare !== 0) return dateCompare;
\*             return a.time.localeCompare(b.time); }
SortComparator(a, b) ==
    LET dateCompare == compareDates(a.date, b.date)
    IN  IF dateCompare # 0 THEN dateCompare ELSE localeCompare(a.time, b.time)

\* One step of a stable sort: x goes after every element that does not
\* compare greater than it.
RECURSIVE InsertSorted(_, _)
InsertSorted(sorted, x) ==
    IF sorted = <<>> THEN <<x>>
    ELSE IF SortComparator(sorted[1], x) > 0 THEN <<x>> \o sorted
    ELSE <<sorted[1]>> \o InsertSorted(Tail(sorted), x)

\* Array.prototype.sort with SortComparator (stable)
RECURSIVE SortAppointments(_)
SortAppointments(list) ==
    IF list = <<>> THEN <<>>
    ELSE InsertSorted(SortAppointments(SubSeq(list, 1, Len(list) - 1)), list[Len(list)])

\* const filteredAppointments = useMemo(...)
\* the useMemo callback, as a function of the activeTab dependency
filteredAppointmentsFor(tab) ==
    SortAppointments(DoctorFilter(StatusFilter(SearchFilter(DateFilter(TabFilter(tab, appointments))))))

filteredAppointments == filteredAppointmentsFor(activeTab)

\* ------------------------------------------------------------------ initial state
\* The store holds its first NumAppts seeded rows; the component has just been
\* constructed (useState initial values) and its mount effect has not run yet.
InitStore == APPOINTMENTS = [i \in StoreIds |-> SeedRow(i)]

InitComponent ==
    /\ appointments = <<>>
    /\ isLoading = FALSE
    /\ error = NoError
    /\ selectedDate = NoDate
    /\ activeTab = "Upcoming"
    /\ searchQuery = <<>>
    /\ statusFilter = AllStatus
    /\ doctorFilter = AllDoctors

Init ==
    /\ InitStore
    /\ InitComponent
    /\ fetchPc = "mount"
    /\ fetchData = <<>>
    /\ calls = [c \in CallIds |-> IdleCall]
    /\ nextCall = 0
    /\ today = IsoDate(2025, 12, 15)
    /\ currentMonth = DateOn(today)
    /\ currentView = "appointments"

\* ------------------------------------------------------------------ mounting
\* {currentView === 'appointments' ? <AppointmentManagementView /> : <DayCalendarView />}
Mounted == currentView = "appointments"

\* A state setter (setAppointments, setIsLoading, setError) called with value:
\* React applies it to a mounted component and drops it once the component
\* has been unmounted.
SetState(current, value) == IF Mounted THEN value ELSE current

\* onClick={() => setCurrentView(view)}: leaving 'appointments' unmounts the
\* component; nothing cancels its calls in flight (the effect returns no
\* cleanup, no request carries an abort signal).
setCurrentView(view) ==
    /\ currentView' = view
    /\ UNCHANGED <<APPOINTMENTS, appointments, isLoading, error, fetchPc, fetchData,
                   callVars, filterVars>>

\* ------------------------------------------------------------------ initial fetch
\* useEffect(() => { fetchData() }, []): setIsLoading(true); setError(null);
\* then getAppointments() is awaited.
FetchDataStart ==
    /\ fetchPc = "mount"
    /\ Mounted
    /\ isLoading' = TRUE
    /\ error' = NoError
    /\ fetchPc' = "get_sent"
    /\ UNCHANGED <<APPOINTMENTS, appointments, fetchData, callVars, filterVars,
                   currentView>>

\* The store serves the GET: the response carries the rows as they are now.
FetchStoreGet ==
    /\ fetchPc = "get_sent"
    /\ fetchData' = StoreGetAppointments
    /\ fetchPc' = "get_ok"
    /\ UNCHANGED <<APPOINTMENTS, appointments, isLoading, error, callVars, filterVars,
                   currentView>>

\* fetch() rejects or !response.ok: getAppointments throws.  The request may
\* be lost before the store sees it or the response after.
FetchTransportFailure ==
    /\ fetchPc \in {"get_sent", "get_ok"}
    /\ fetchData' = <<>>
    /\ fetchPc' = "get_fail"
    /\ UNCHANGED <<APPOINTMENTS, appointments, isLoading, error, callVars, filterVars,
                   currentView>>

\* try branch: setAppointments(transformedData); finally setIsLoading(false)
FetchDataOk ==
    /\ fetchPc = "get_ok"
    /\ appointments' = SetState(appointments, transformedData(fetchData))
    /\ isLoading' = SetState(isLoading, FALSE)
    /\ fetchPc' = "done"
    /\ UNCHANGED <<APPOINTMENTS, error, fetchData, callVars, filterVars,
                   currentView>>

FetchDataFail_KeepsLoading ==
    /\ fetchPc = "get_fail"
    /\ error' = SetState(error, LoadError)
    /\ isLoading' = isLoading
    /\ fetchPc' = "done"
    /\ UNCHANGED <<APPOINTMENTS, appointments, fetchData, callVars, filterVars,
                   currentView>>

\* catch branch: setError(...); finally setIsLoading(false)
FetchDataFail ==
    /\ fetchPc = "get_fail"
    /\ error' = SetState(error, LoadError)
    /\ isLoading' = SetState(isLoading, FALSE)
    /\ fetchPc' = "done"
    /\ UNCHANGED <<APPOINTMENTS, appointments, fetchData, callVars, filterVars,
                   currentView>>

\* ------------------------------------------------------------------ status update
\* The list (and so any status control) is rendered only while the component
\* is mounted and once loading has ended without error.
ListRendered == Mounted /\ fetchPc = "done" /\ ~isLoading /\ error = NoError

\* handleStatusUpdate(appointmentId, newStatus), up to its first await: the
\* optimistic setAppointments(prev => ...) and the PUT being sent.
HandleStatusUpdate(appointmentId, newStatus) ==
    /\ ListRendered
    /\ nextCall < MaxCalls
    /\ appointments' = OptimisticApply(appointments, appointmentId, newStatus)
    /\ nextCall' = nextCall + 1
    /\ calls' = [calls EXCEPT ![nextCall + 1] =
                    [IdleCall EXCEPT !.pc = "put_sent", !.id = appointmentId,
                                     !.status = newStatus, !.puts = 1]]
    /\ UNCHANGED <<APPOINTMENTS, loadVars, filterVars>>

\* The store serves the PUT (updateAppointmentStatus of the store): the row is
\* looked up; absent -> "not found" error, present -> status written.
StorePut(c) ==
    /\ calls[c].pc = "put_sent"
    /\ IF StoreHas(calls[c].id)
       THEN /\ APPOINTMENTS' = StoreSetStatus(calls[c].id, calls[c].status)
            /\ calls' = [calls EXCEPT ![c].pc = "put_ok"]
       ELSE /\ APPOINTMENTS' = APPOINTMENTS
            /\ calls' = [calls EXCEPT ![c].pc = "put_fail", ![c].err = "NotFound"]
    /\ UNCHANGED <<appointments, loadVars, nextCall, filterVars>>

\* fetch() rejects (network unreachable, timeout): the request is lost before
\* the store sees it, or the response after the store has written.
PutTransportFailure(c) ==
    /\ calls[c].pc \in {"put_sent", "put_ok"}
    /\ calls' = [calls EXCEPT ![c].pc = "put_fail", ![c].err = "TransportFailure"]
    /\ UNCHANGED <<APPOINTMENTS, appointments, loadVars, nextCall, filterVars>>

\* Number of invocations that have ended
DoneCount == Cardinality({c \in CallIds : calls[c].pc = "done"})

UpdateResolved_Refetches(c) ==
    /\ calls[c].pc = "put_ok"
    /\ calls' = [calls EXCEPT ![c].pc = "done", ![c].doneAt = DoneCount + 1]
    /\ appointments' = SetState(appointments, transformedData(APPOINTMENTS))
    /\ UNCHANGED <<APPOINTMENTS, loadVars, nextCall, filterVars>>

\* await updateAppointmentStatus(...) resolves: the try block ends, nothing else runs.
UpdateResolved(c) ==
    /\ calls[c].pc = "put_ok"
    /\ calls' = [calls EXCEPT ![c].pc = "done", ![c].doneAt = DoneCount + 1]
    /\ UNCHANGED <<APPOINTMENTS, appointments, loadVars, nextCall, filterVars>>

UpdateRejected_Retries(c) ==
    /\ calls[c].pc = "put_fail"
    /\ calls' = IF calls[c].puts < 2
                THEN [calls EXCEPT ![c].pc = "put_sent", ![c].puts = calls[c].puts + 1]
                ELSE [calls EXCEPT ![c].pc = "get_sent", ![c].caught = TRUE,
                                   ![c].gets = calls[c].gets + 1]
    /\ UNCHANGED <<APPOINTMENTS, appointments, loadVars, nextCall, filterVars>>

\* await updateAppointmentStatus(...) rejects: catch (err) { console.error(...);
\* const data = await getAppointments(); ... }: the recovery GET is sent.
UpdateRejected(c) ==
    /\ calls[c].pc = "put_fail"
    /\ calls' = [calls EXCEPT ![c].pc = "get_sent", ![c].caught = TRUE,
                              ![c].gets = calls[c].gets + 1]
    /\ UNCHANGED <<APPOINTMENTS, appointments, loadVars, nextCall, filterVars>>

\* The store serves the recovery GET.
StoreGet(c) ==
    /\ calls[c].pc = "get_sent"
    /\ calls' = [calls EXCEPT ![c].pc = "get_ok", ![c].data = StoreGetAppointments]
    /\ UNCHANGED <<APPOINTMENTS, appointments, loadVars, nextCall, filterVars>>

\* The recovery GET fails in transport: getAppointments throws.
GetTransportFailure(c) ==
    /\ calls[c].pc \in {"get_sent", "get_ok"}
    /\ calls' = [calls EXCEPT ![c].pc = "get_fail", ![c].data = <<>>]
    /\ UNCHANGED <<APPOINTMENTS, appointments, loadVars, nextCall, filterVars>>

\* The recovery GET resolves: setAppointments(transformedData); alert(...).
ResyncApply(c) ==
    /\ calls[c].pc = "get_ok"
    /\ appointments' = SetState(appointments, transformedData(calls[c].data))
    /\ calls' = [calls EXCEPT ![c].pc = "done", ![c].data = <<>>, ![c].alerted = TRUE,
                              ![c].doneAt = DoneCount + 1]
    /\ UNCHANGED <<APPOINTMENTS, loadVars, nextCall, filterVars>>

\* The recovery GET rejects inside the catch block: the rejection leaves
\* handleStatusUpdate; setAppointments and alert are not reached.
ResyncThrow(c) ==
    /\ calls[c].pc = "get_fail"
    /\ calls' = [calls EXCEPT ![c].pc = "done", ![c].threw = TRUE,
                              ![c].doneAt = DoneCount + 1]
    /\ UNCHANGED <<APPOINTMENTS, appointments, loadVars, nextCall, filterVars>>

\* What an invocation that has ended let its caller and the user observe:
\* the alert text, the rejection of the recovery GET, or nothing.
Signal(c) ==
    IF calls[c].alerted THEN UpdateAlert
    ELSE IF calls[c].threw THEN "TransportFailure"
    ELSE "none"

Next ==
    \/ FetchDataStart
    \/ FetchStoreGet
    \/ FetchTransportFailure
    \/ FetchDataOk
    \/ FetchDataFail
    \/ \E appointmentId \in StoreIds \cup {AbsentId}, newStatus \in Statuses :
          HandleStatusUpdate(appointmentId, newStatus)
    \/ \E c \in CallIds : StorePut(c)
    \/ \E c \in CallIds : PutTransportFailure(c)
    \/ \E c \in CallIds : UpdateResolved(c)
    \/ \E c \in CallIds : UpdateRejected(c)
    \/ \E c \in CallIds : StoreGet(c)
    \/ \E c \in CallIds : GetTransportFailure(c)
    \/ \E c \in CallIds : ResyncApply(c)
    \/ \E c \in CallIds : ResyncThrow(c)

Spec == Init /\ [][Next]_vars

\* ------------------------------------------------------------------ the loaded view
\* [...new Set(appointments.map(apt => apt.doctorName))]
uniqueDoctors == {appointments[k].doctorName : k \in 1..Len(appointments)}

Tabs == {"Upcoming", "Today", "Past", "All"}

\* Values of getTodayStr() the view is rendered under
TodayChoices == {IsoDate(2025, 12, 15), IsoDate(2026, 1, 2), IsoDate(2025, 12, 1)}

\* Calendar days the user clicks
DateChoices == {IsoDate(2025, 12, 15), IsoDate(2026, 1, 2), IsoDate(2025, 12, 16)}

\* Texts typed into the search box
QueryChoices ==
    { <<>>, <<" ">>, <<"s", "a", "r">>, <<"C", "H", "E", "N">>, <<"r", "e", " ">> }

\* Sequences of at most MaxLen distinct seeded rows, in any order
Collections ==
    UNION { { [k \in 1..n |-> SeedRows[f[k]]] :
                f \in { g \in [1..n -> 1..Len(SeedRows)] :
                          \A i, j \in 1..n : i # j => g[i] # g[j] } } :
            n \in 0..MaxLen }

\* The view once its initial fetch has succeeded, no status update issued.
InitView ==
    /\ APPOINTMENTS \in Collections
    /\ appointments = transformedData(APPOINTMENTS)
    /\ isLoading = FALSE
    /\ error = NoError
    /\ fetchPc = "done"
    /\ fetchData = <<>>
    /\ calls = [c \in CallIds |-> IdleCall]
    /\ nextCall = 0
    /\ selectedDate = NoDate
    /\ activeTab = "Upcoming"
    /\ searchQuery = <<>>
    /\ statusFilter = AllStatus
    /\ doctorFilter = AllDoctors
    /\ today \in TodayChoices
    /\ currentMonth = DateOn(today)
    /\ currentView = "appointments"

\* const handleDateSelect = (dateStr) => setSelectedDate(dateStr === selectedDate ? null : dateStr)
handleDateSelect(dateStr) ==
    /\ selectedDate' = IF dateStr = selectedDate THEN NoDate ELSE dateStr
    /\ UNCHANGED <<APPOINTMENTS, appointments, loadVars, callVars, currentMonth,
                   activeTab, searchQuery, statusFilter, doctorFilter, today>>

handleTabChange_KeepsDate(tab) ==
    /\ activeTab' = tab
    /\ UNCHANGED <<APPOINTMENTS, appointments, loadVars, callVars, currentMonth,
                   selectedDate, searchQuery, statusFilter, doctorFilter, today>>

\* const handleTabChange = (tab) => { setActiveTab(tab); setSelectedDate(null); }
handleTabChange(tab) ==
    /\ activeTab' = tab
    /\ selectedDate' = NoDate
    /\ UNCHANGED <<APPOINTMENTS, appointments, loadVars, callVars, currentMonth,
                   searchQuery, statusFilter, doctorFilter, today>>

\* onChange={(e) => setSearchQuery(e.target.value)}
setSearchQuery(value) ==
    /\ searchQuery' = value
    /\ UNCHANGED <<APPOINTMENTS, appointments, loadVars, callVars, currentMonth,
                   selectedDate, activeTab, statusFilter, doctorFilter, today>>

\* onChange={(e) => setStatusFilter(e.target.value)}
setStatusFilter(value) ==
    /\ statusFilter' = value
    /\ UNCHANGED <<APPOINTMENTS, appointments, loadVars, callVars, currentMonth,
                   selectedDate, activeTab, searchQuery, doctorFilter, today>>

\* onChange={(e) => setDoctorFilter(e.target.value)}: the options are
\* 'All Doctors' and the doctors of the collection.
setDoctorFilter(value) ==
    /\ value \in uniqueDoctors \cup {AllDoctors}
    /\ doctorFilter' = value
    /\ UNCHANGED <<APPOINTMENTS, appointments, loadVars, callVars, currentMonth,
                   selectedDate, activeTab, searchQuery, statusFilter, today>>

NextView ==
    \/ \E dateStr \in DateChoices : handleDateSelect(dateStr)
    \/ \E tab \in Tabs : handleTabChange(tab)
    \/ \E value \in QueryChoices : setSearchQuery(value)
    \/ \E value \in Statuses \cup {AllStatus} : setStatusFilter(value)
    \/ \E value \in {AllDoctors, DrChen, DrWhite} : setDoctorFilter(value)

SpecView == InitView /\ [][NextView]_vars

\* ------------------------------------------------------------------ the dashboard
\* The array `filtered.sort(...)` is called on, named by what it is: the array
\* held in the appointments state ("state") or an array made during the
\* computation ("fresh").  `let filtered = [...appointments]` makes a new array.
SpreadRef_Alias == "state"

SpreadRef == "fresh"

\* Array.prototype.filter returns a new array; a filter that is not applied
\* leaves `filtered` the array it was.
SortedRef ==
    IF \/ activeTab \in {"Today", "Upcoming", "Past"}
       \/ selectedDate # NoDate
       \/ trim(searchQuery) # <<>>
       \/ statusFilter # AllStatus
       \/ doctorFilter # AllDoctors
    THEN "fresh"
    ELSE SpreadRef

\* The appointments state array once the useMemo of filteredAppointments has
\* run: Array.prototype.sort sorts the array it is called on in place.
appointmentsAfterRender ==
    IF SortedRef = "state" THEN filteredAppointments ELSE appointments

stats_UpcomingInclusive ==
    [today |-> LET K(apt) == apt.date = today IN Len(SelectSeq(appointments, K)),
     confirmed |-> LET K(apt) == apt.status = "Confirmed" IN Len(SelectSeq(appointments, K)),
     upcoming |-> LET K(apt) == compareDates(apt.date, today) >= 0
                  IN  Len(SelectSeq(appointments, K)),
     virtual |-> LET K(apt) == apt.mode = "Video Call" IN Len(SelectSeq(appointments, K))]

stats_OfVisibleList ==
    [today |-> LET K(apt) == apt.date = today IN Len(SelectSeq(filteredAppointments, K)),
     confirmed |-> LET K(apt) == apt.status = "Confirmed"
                   IN  Len(SelectSeq(filteredAppointments, K)),
     upcoming |-> LET K(apt) == compareDates(apt.date, today) > 0
                  IN  Len(SelectSeq(filteredAppointments, K)),
     virtual |-> LET K(apt) == apt.mode = "Video Call"
                 IN  Len(SelectSeq(filteredAppointments, K))]

\* const stats = useMemo(...)
stats ==
    [today |-> LET K(apt) == apt.date = today IN Len(SelectSeq(appointments, K)),
     confirmed |-> LET K(apt) == apt.status = "Confirmed" IN Len(SelectSeq(appointments, K)),
     upcoming |-> LET K(apt) == compareDates(apt.date, today) > 0
                  IN  Len(SelectSeq(appointments, K)),
     virtual |-> LET K(apt) == apt.mode = "Video Call" IN Len(SelectSeq(appointments, K))]

\* days.push(null): an empty slot before the first day of the month
NullDay == [day |-> 0, dateStr |-> <<>>, hasAppointments |-> FALSE, appointments |-> <<>>]

\* The two loops of calendarDays: startingDayOfWeek empty slots, then one entry
\* per day 1..daysInMonth carrying the day, its dateStr, and the appointments
\* of `list` dated dateStr.
BuildDays(year, month, daysInMonth, startingDayOfWeek, list) ==
    [i \in 1..startingDayOfWeek |-> NullDay]
    \o [day \in 1..daysInMonth |->
          LET dateStr == IsoDate(year, month + 1, day)
              K(apt) == apt.date = dateStr
          IN  [day |-> day,
               dateStr |-> dateStr,
               hasAppointments |-> \E k \in 1..Len(list) : list[k].date = dateStr,
               appointments |-> SelectSeq(list, K)]]

calendarDays_LastDayOfMonthBefore ==
    LET year == currentMonth.year
        month == currentMonth.month
    IN  BuildDays(year, month, NewDate(year, month, 0).date,
                  getDay(NewDate(year, month, 1)), appointments)

calendarDays_OfVisibleList ==
    LET year == currentMonth.year
        month == currentMonth.month
    IN  BuildDays(year, month, NewDate(year, month + 1, 0).date,
                  getDay(NewDate(year, month, 1)), filteredAppointments)

\* const calendarDays = useMemo(...)
calendarDays ==
    LET year == currentMonth.year
        month == currentMonth.month
        firstDay == NewDate(year, month, 1)
        lastDay == NewDate(year, month + 1, 0)
        daysInMonth == lastDay.date
        startingDayOfWeek == getDay(firstDay)
    IN  BuildDays(year, month, daysInMonth, startingDayOfWeek, appointments)

\* months since year 0 of the month a Date lies in
MonthIndex(dt) == dt.year * 12 + dt.month

\* const changeMonth = (offset) => setCurrentMonth(prev => { newDate = new Date(prev);
\*     newDate.setMonth(prev.getMonth() + offset); return newDate; })
changeMonth(offset) ==
    LET newDate == setMonth(currentMonth, currentMonth.month + offset)
        span == MonthIndex(newDate) - MonthIndex(DateOn(today))
    IN  /\ span \in (0 - MaxMonthSpan)..MaxMonthSpan
        /\ currentMonth' = newDate
        /\ UNCHANGED <<APPOINTMENTS, appointments, loadVars, callVars, selectedDate,
                       activeTab, searchQuery, statusFilter, doctorFilter, today>>

\* Days on which the dashboard is opened
ClockChoices == {IsoDate(2024, 1, 31), IsoDate(2025, 12, 15), IsoDate(2026, 1, 2)}

\* A collection of five rows: two dated 2025-12-15 (one of them Confirmed, the
\* other a video call), three dated later, none of those Confirmed or video.
StatsFixture ==
    << SeedRows[1], SeedRows[2], SeedRows[3],
       [SeedRows[3] EXCEPT !.id = 4, !.appointment_date = IsoDate(2025, 12, 20),
                           !.status = "Scheduled"],
       [SeedRows[1] EXCEPT !.id = 5, !.appointment_date = IsoDate(2026, 2, 10),
                           !.status = "Cancelled"] >>

\* Two rows of one day whose times of day are written without a leading zero
\* where the hour has one digit: "9:00" and "10:00".
UnpaddedRows ==
    << [SeedRows[1] EXCEPT !.id = 6, !.appointment_time = <<"9", ":", "0", "0">>],
       [SeedRows[2] EXCEPT !.id = 7, !.appointment_time = <<"1", "0", ":", "0", "0">>] >>

BoardCollections ==
    Collections \cup {StatsFixture, UnpaddedRows, <<UnpaddedRows[2], UnpaddedRows[1]>>}

\* Days of the visible month the user clicks in the calendar: the button of
\* day d calls handleDateSelect with the dateStr of its entry.
ClickDays == {15}

\* The dashboard once its initial fetch has succeeded.
InitBoard ==
    /\ APPOINTMENTS \in BoardCollections
    /\ appointments = transformedData(APPOINTMENTS)
    /\ isLoading = FALSE
    /\ error = NoError
    /\ fetchPc = "done"
    /\ fetchData = <<>>
    /\ calls = [c \in CallIds |-> IdleCall]
    /\ nextCall = 0
    /\ selectedDate = NoDate
    /\ activeTab = "Upcoming"
    /\ searchQuery = <<>>
    /\ statusFilter = AllStatus
    /\ doctorFilter = AllDoctors
    /\ today \in ClockChoices
    /\ currentMonth = DateOn(today)
    /\ currentView = "appointments"

NextBoard ==
    \/ \E offset \in {-1, 1} : changeMonth(offset)
    \/ \E day \in ClickDays :
          handleDateSelect(IsoDate(currentMonth.year, currentMonth.month + 1, day))
    \/ \E tab \in Tabs : handleTabChange(tab)
    \/ \E value \in {AllStatus, "Confirmed"} : setStatusFilter(value)

SpecBoard == InitBoard /\ [][NextBoard]_vars

\* ------------------------------------------------------------------ the clock
\* An instant as new Date() gives it: the local calendar fields and time of
\* day, and getTimezoneOffset() (minutes to add to local time to get UTC).
ClockInstants ==
    { [year |-> d.year, month |-> d.month, date |-> d.date,
       hours |-> h, minutes |-> 30, timezoneOffset |-> tz] :
        d \in {DateOn(IsoDate(2025, 12, 15)), DateOn(IsoDate(2026, 1, 2))},
        h \in {0, 12, 23},
        tz \in {0, 300, -330} }

\* export function getTodayStr(): new Date().toISOString().split('T')[0], the
\* calendar date of the instant in UTC
getTodayStr(now) ==
    LET utcMinutes == now.hours * 60 + now.minutes + now.timezoneOffset
        utcDay == DaysFromCivil(now.year, now.month + 1, now.date) + (utcMinutes \div 1440)
        c == CivilFromDays(utcDay)
    IN  IsoDate(c.y, c.m, c.d)

\* The dashboard loaded at some instant: today is getTodayStr() at that
\* instant, and currentMonth (useState(new Date())) holds its local date.
InitClock ==
    /\ APPOINTMENTS \in Collections
    /\ appointments = transformedData(APPOINTMENTS)
    /\ isLoading = FALSE
    /\ error = NoError
    /\ fetchPc = "done"
    /\ fetchData = <<>>
    /\ calls = [c \in CallIds |-> IdleCall]
    /\ nextCall = 0
    /\ selectedDate = NoDate
    /\ activeTab = "Upcoming"
    /\ searchQuery = <<>>
    /\ statusFilter = AllStatus
    /\ doctorFilter = AllDoctors
    /\ currentView = "appointments"
    /\ \E now \in ClockInstants :
          /\ today = getTodayStr(now)
          /\ currentMonth = [year |-> now.year, month |-> now.month, date |-> now.date]

NextClock ==
    \/ \E tab \in Tabs : handleTabChange(tab)
    \/ \E dateStr \in DateChoices : handleDateSelect(dateStr)

SpecClock == InitClock /\ [][NextClock]_vars

\* ------------------------------------------------------------------ the whole component
\* Status values a caller passes to handleStatusUpdate: the parameter is a
\* string nothing checks; 'Upcoming' is a status the README's fixed set and
\* the seeded store rows carry.
StatusInputs == {"Completed", "Upcoming"}

\* The component from its mount on, every handler together: the initial fetch,
\* status updates of one appointment, the filter and calendar controls (which
\* exist only while the list is rendered) and the switch to the other view.
\* Switching back mounts a new instance, which is a new run from Init.
NextComponent ==
    \/ FetchDataStart
    \/ FetchStoreGet
    \/ FetchTransportFailure
    \/ FetchDataOk
    \/ FetchDataFail
    \/ \E newStatus \in StatusInputs : HandleStatusUpdate(1, newStatus)
    \/ \E c \in CallIds : StorePut(c)
    \/ \E c \in CallIds : PutTransportFailure(c)
    \/ \E c \in CallIds : UpdateResolved(c)
    \/ \E c \in CallIds : UpdateRejected(c)
    \/ \E c \in CallIds : StoreGet(c)
    \/ \E c \in CallIds : GetTransportFailure(c)
    \/ \E c \in CallIds : ResyncApply(c)
    \/ \E c \in CallIds : ResyncThrow(c)
    \/ ListRendered /\ handleTabChange("Past")
    \/ ListRendered /\ handleDateSelect(IsoDate(2025, 12, 15))
    \/ ListRendered /\ setSearchQuery(<<"s", "a", "r">>)
    \/ ListRendered /\ setStatusFilter("Confirmed")
    \/ ListRendered /\ setDoctorFilter(DrChen)
    \/ ListRendered /\ changeMonth(1)
    \/ Mounted /\ setCurrentView("calendar")

SpecComponent == Init /\ [][NextComponent]_vars

\* ================================================================== properties
LocalHas(appointmentId) == \E k \in 1..Len(appointments) : appointments[k].id = appointmentId

LocalStatus(list, appointmentId) ==
    list[CHOOSE k \in 1..Len(list) : list[k].id = appointmentId].status

StoreStatus(rows, appointmentId) ==
    rows[CHOOSE k \in 1..Len(rows) : rows[k].id = appointmentId].status

\* the PUT of invocation c is sent and its response has not been received
PutInFlight(c) == calls[c].pc \in {"put_sent", "put_ok", "put_fail"}

\* invocation c has been issued and has not ended
Running(c) == calls[c].pc \notin {"idle", "done"}

\* invocation c has ended and its PUT succeeded
Succeeded(c) == calls[c].pc = "done" /\ ~calls[c].caught

\* ---- C1
\* C1: when the failure handling of a status update ends (the step that ends an
\* invocation whose PUT failed), the local collection equals the store's
\* collection, re-fetched and replaced wholesale.
C1_ResyncedAfterFailure ==
    [][\A c \in CallIds :
          (calls[c].pc \in {"get_ok", "get_fail"} /\ calls'[c].pc = "done")
              => appointments' = transformedData(APPOINTMENTS')]_vars

\* ---- C2
\* The records of a list with the non-status fields only
Frame(list) == [k \in 1..Len(list) |-> [list[k] EXCEPT !.status = ""]]

\* C2: the step that issues a status update (any id of the collection, any
\* current and any new status) changes the status of that id to the new status
\* and nothing else: same length, same order, every other record and every
\* other field as before; the step that receives the successful response
\* leaves the collection as it is; so after a single update that succeeded the
\* collection is the fetched one with the new status on that id.
C2_SuccessFrame ==
    /\ [][\A c \in CallIds :
             /\ (calls[c].pc = "idle" /\ calls'[c].pc = "put_sent")
                   => /\ Len(appointments') = Len(appointments)
                      /\ Frame(appointments') = Frame(appointments)
                      /\ \A k \in 1..Len(appointments) :
                            appointments'[k].status =
                                IF appointments[k].id = calls'[c].id
                                THEN calls'[c].status
                                ELSE appointments[k].status
             /\ (calls[c].pc = "put_ok" /\ calls'[c].pc = "done")
                   => appointments' = appointments]_vars
    /\ []((nextCall = 1 /\ Succeeded(1))
             => appointments =
                   [k \in StoreIds |->
                       IF k = calls[1].id
                       THEN [transformedData(<<SeedRow(k)>>)[1] EXCEPT !.status = calls[1].status]
                       ELSE transformedData(<<SeedRow(k)>>)[1]])

\* C2 witness: one update of a present id has succeeded; that id shows the new
\* status, which differs from the seeded one, locally and in the store, and
\* the other record is as seeded.
C2_Witness ==
    /\ nextCall = 1
    /\ calls[1].pc = "done"
    /\ ~calls[1].caught
    /\ calls[1].id = 1
    /\ calls[1].status # SeedRow(1).status
    /\ LocalStatus(appointments, 1) = calls[1].status
    /\ StoreStatus(APPOINTMENTS, 1) = calls[1].status
    /\ appointments[2] = transformedData(<<SeedRow(1), SeedRow(2)>>)[2]

\* ---- C3
\* C3 as stated: in every state in which the PUT of a status update is in
\* flight, the local collection shows the new status for that id.
C3_ShownWhileInFlight ==
    \A c \in CallIds :
        (PutInFlight(c) /\ LocalHas(calls[c].id))
            => LocalStatus(appointments, calls[c].id) = calls[c].status

\* invocation c is issued by this step
IssuedNow(c) == calls[c].pc = "idle" /\ calls'[c].pc = "put_sent"

\* C3 amended: the step that issues a status update leaves the local collection
\* showing the new status for that id (the optimistic change is not later than
\* the request), and while the PUT is in flight the collection stops showing it
\* only by a step that issues another update of the same id or that applies the
\* resync of a failed update.
C3_ShownUntilOverwritten ==
    [][\A c \in CallIds :
          /\ (IssuedNow(c) /\ LocalHas(calls'[c].id))
                => LocalStatus(appointments', calls'[c].id) = calls'[c].status
          /\ ( /\ PutInFlight(c)
               /\ calls'[c].pc \in {"put_sent", "put_ok", "put_fail"}
               /\ LocalHas(calls[c].id)
               /\ LocalStatus(appointments, calls[c].id) = calls[c].status
               /\ LocalStatus(appointments', calls[c].id) # calls[c].status )
                => \/ \E d \in CallIds \ {c} : IssuedNow(d) /\ calls'[d].id = calls[c].id
                   \/ \E d \in CallIds \ {c} : calls[d].pc = "get_ok" /\ calls'[d].pc = "done"]_vars

\* C3 witness: a PUT is in flight, the store has not written it yet, and the
\* local collection already shows the new status.
C3_Witness ==
    /\ calls[1].pc = "put_sent"
    /\ calls[1].id = 2
    /\ LocalStatus(appointments, 2) = calls[1].status
    /\ StoreStatus(APPOINTMENTS, 2) # calls[1].status

\* ---- C4
\* C4: of two status updates in flight at the same time for different ids of
\* the collection, the step that ends one (its success, or its failure with the resync) leaves the
\* local status of the other one's id as it was.
C4_DisjointIdsIndependent ==
    [][\A c, d \in CallIds :
          ( /\ c # d
            /\ Running(c) /\ calls'[c].pc = "done"
            /\ Running(d)
            /\ calls[c].id # calls[d].id
            /\ LocalHas(calls[c].id)
            /\ LocalHas(calls[d].id) )
              => LocalStatus(appointments', calls[d].id) = LocalStatus(appointments, calls[d].id)]_vars

\* ---- C5
\* two updates of the same present id, both succeeded, carrying different statuses
SameIdBothSucceeded(c, d) ==
    /\ c # d
    /\ Succeeded(c) /\ Succeeded(d)
    /\ calls[c].id = calls[d].id
    /\ calls[c].status # calls[d].status
    /\ LocalHas(calls[c].id)

\* no invocation other than c and d has written the status of their id since
\* the earlier of the two was issued: none issued later targets the id, and
\* none has applied a resync
Undisturbed(c, d) ==
    \A x \in CallIds \ {c, d} :
        /\ ~calls[x].alerted
        /\ (x > c \/ x > d) => (calls[x].pc = "idle" \/ calls[x].id # calls[c].id)

\* C5 as stated: when two updates of the same id have both succeeded, the local
\* collection shows the status carried by the one whose response was received
\* last.
C5_LastResponseWins ==
    \A c, d \in CallIds :
        (SameIdBothSucceeded(c, d) /\ Undisturbed(c, d) /\ calls[c].doneAt > calls[d].doneAt)
            => LocalStatus(appointments, calls[c].id) = calls[c].status

\* C5 amended: when two updates of the same id have both succeeded, the local
\* collection shows the status carried by the one that was issued last, in
\* either order of the two responses.
C5_LastIssuedWins ==
    \A c, d \in CallIds :
        (SameIdBothSucceeded(c, d) /\ Undisturbed(c, d) /\ c > d)
            => LocalStatus(appointments, calls[c].id) = calls[c].status

\* C5 witness: two updates of id 1 with different statuses were in flight
\* together, both succeeded, and the response of the first issued came last.
C5_Witness ==
    /\ SameIdBothSucceeded(1, 2)
    /\ calls[1].id = 1
    /\ calls[1].doneAt = 2
    /\ calls[2].doneAt = 1
    /\ LocalStatus(appointments, 1) = calls[2].status

\* ---- C6
\* C6: whenever the initial fetch has ended and no status update is running,
\* every appointment of the local collection has the status the store holds
\* for its id.
C6_ConvergedWhenQuiet ==
    (fetchPc = "done" /\ \A c \in CallIds : ~Running(c))
        => \A k \in 1..Len(appointments) :
              /\ StoreHas(appointments[k].id)
              /\ appointments[k].status = StoreStatus(APPOINTMENTS, appointments[k].id)

\* ---- C7
\* C7: every status update whose PUT failed has, once it has ended, shown the
\* failure notification.
C7_FailureAlwaysNotified ==
    \A c \in CallIds :
        (calls[c].pc = "done" /\ calls[c].caught) => Signal(c) = UpdateAlert

\* ---- C8
\* C8: a status update that targets an id absent from the local collection ends
\* by reporting NotFound to its caller.
C8_AbsentIdReportedNotFound ==
    \A c \in CallIds :
        (calls[c].pc = "done" /\ ~LocalHas(calls[c].id)) => Signal(c) = "NotFound"

\* ---- C9
\* a <= b for two ISO dates "YYYY-MM-DD", read as calendar dates: equal, or at
\* the first position where they differ a has the smaller digit
IsoDateLeq(a, b) ==
    \/ a = b
    \/ \E i \in 1..Len(a) :
          /\ \A j \in 1..(i - 1) : a[j] = b[j]
          /\ a[i] # b[i]
          /\ DigitVal(a[i]) < DigitVal(b[i])

\* q occurs in s at some position, letter case ignored
OccursIgnoringCase(q, s) ==
    \E i \in 1..(Len(s) - Len(q) + 1) :
        \A k \in 1..Len(q) : LowerChar(s[i + k - 1]) = LowerChar(q[k])

TabPredicate(apt) ==
    CASE activeTab = "Today" -> apt.date = today
      [] activeTab = "Upcoming" -> IsoDateLeq(today, apt.date)
      [] activeTab = "Past" -> ~IsoDateLeq(today, apt.date)
      [] activeTab = "All" -> TRUE

SelectedDatePredicate(apt) == selectedDate = NoDate \/ apt.date = selectedDate

SearchActive == \E k \in 1..Len(searchQuery) : searchQuery[k] # " "

SearchPredicate(apt) ==
    SearchActive =>
        \/ OccursIgnoringCase(searchQuery, apt.name)
        \/ OccursIgnoringCase(searchQuery, apt.doctorName)
        \/ OccursIgnoringCase(searchQuery, apt.reason)

StatusPredicate(apt) == statusFilter = AllStatus \/ apt.status = statusFilter

DoctorPredicate(apt) == doctorFilter = AllDoctors \/ apt.doctorName = doctorFilter

AllPredicates(apt) ==
    /\ TabPredicate(apt)
    /\ SelectedDatePredicate(apt)
    /\ SearchPredicate(apt)
    /\ StatusPredicate(apt)
    /\ DoctorPredicate(apt)

\* list holds exactly the records of the collection that satisfy P, each once
HoldsExactly(list, P(_)) ==
    /\ \A k \in 1..Len(list) :
          \E j \in 1..Len(appointments) : appointments[j] = list[k] /\ P(list[k])
    /\ \A j \in 1..Len(appointments) :
          P(appointments[j]) => \E k \in 1..Len(list) : list[k] = appointments[j]
    /\ \A k1, k2 \in 1..Len(list) : k1 # k2 => list[k1] # list[k2]

\* C9: the visible list holds exactly the records of the collection that
\* satisfy the tab, selected-date, search, status and doctor predicates
\* together: none fabricated, none twice, none that fails a predicate, none
\* that satisfies them all left out.
C9_VisibleIsExactlyMatching == HoldsExactly(filteredAppointments, AllPredicates)

\* C9 witness: every kind of filter is active, one record of the collection is
\* shown and another one is filtered out.
C9_Witness ==
    /\ selectedDate # NoDate
    /\ SearchActive
    /\ statusFilter # AllStatus
    /\ doctorFilter # AllDoctors
    /\ activeTab = "Upcoming"
    /\ Len(appointments) = 2
    /\ Len(filteredAppointments) = 1

\* ---- C10
NoOtherFilter ==
    /\ selectedDate = NoDate
    /\ ~SearchActive
    /\ statusFilter = AllStatus
    /\ doctorFilter = AllDoctors

\* C10: with no other filter active the tab alone decides the visible list:
\* Today date = today, Upcoming date >= today (today included), Past
\* date < today, All every appointment.
C10_TabAlone ==
    NoOtherFilter =>
        /\ activeTab = "Today" =>
              LET P(apt) == apt.date = today IN HoldsExactly(filteredAppointments, P)
        /\ activeTab = "Upcoming" =>
              LET P(apt) == IsoDateLeq(today, apt.date) IN HoldsExactly(filteredAppointments, P)
        /\ activeTab = "Past" =>
              LET P(apt) == apt.date # today /\ IsoDateLeq(apt.date, today)
              IN  HoldsExactly(filteredAppointments, P)
        /\ activeTab = "All" =>
              LET P(apt) == TRUE IN HoldsExactly(filteredAppointments, P)

\* C10 witness: the user has switched to tab Past with no other filter; the
\* appointment dated before today is shown and the one dated today is not.
C10_Witness ==
    /\ NoOtherFilter
    /\ activeTab = "Past"
    /\ Len(appointments) = 2
    /\ Len(filteredAppointments) = 1
    /\ \E k \in 1..2 : appointments[k].date = today

\* ---- C11
\* C11: a selected date is applied in addition to the tab: every visible
\* appointment is dated selectedDate and satisfies the tab; with no search,
\* status or doctor filter the visible list holds exactly the appointments
\* dated selectedDate that satisfy the tab; so the list is empty when no
\* appointment is dated selectedDate (under tab All too) and when selectedDate
\* lies outside the active tab.
C11_SelectedDateNarrowsTab ==
    selectedDate # NoDate =>
        /\ \A k \in 1..Len(filteredAppointments) :
              /\ filteredAppointments[k].date = selectedDate
              /\ TabPredicate(filteredAppointments[k])
        /\ (~SearchActive /\ statusFilter = AllStatus /\ doctorFilter = AllDoctors)
              => LET P(apt) == apt.date = selectedDate /\ TabPredicate(apt)
                 IN  HoldsExactly(filteredAppointments, P)
        /\ (\A j \in 1..Len(appointments) : appointments[j].date # selectedDate)
              => filteredAppointments = <<>>
        /\ ~TabPredicate([date |-> selectedDate]) => filteredAppointments = <<>>

\* C11 witness: under tab Upcoming a date before today that has an appointment
\* is selected; the collection has an appointment the tab would show, and the
\* visible list is empty.
C11_Witness ==
    /\ activeTab = "Upcoming"
    /\ selectedDate # NoDate
    /\ ~IsoDateLeq(today, selectedDate)
    /\ \E j \in 1..Len(appointments) : appointments[j].date = selectedDate
    /\ \E j \in 1..Len(appointments) : IsoDateLeq(today, appointments[j].date)
    /\ filteredAppointments = <<>>

C13_StatusAndDoctorExact ==
    (activeTab = "All" /\ selectedDate = NoDate /\ ~SearchActive)
        => LET P(apt) == StatusPredicate(apt) /\ DoctorPredicate(apt)
           IN  HoldsExactly(filteredAppointments, P)

\* C13 witness: the doctor filter alone is set; of two appointments with
\* different doctors the one of the chosen doctor is shown.
C13_Witness ==
    /\ activeTab = "All"
    /\ selectedDate = NoDate
    /\ ~SearchActive
    /\ statusFilter = AllStatus
    /\ doctorFilter = DrWhite
    /\ Len(appointments) = 2
    /\ Len(filteredAppointments) = 1
    /\ filteredAppointments[1].doctorName = DrWhite

\* ---- C14
\* minutes since midnight of a time of day written "H:MM" or "HH:MM"
MinutesOfDay(time) ==
    LET colon == CHOOSE i \in 1..Len(time) : time[i] = ":"
    IN  ToInt(SubSeq(time, 1, colon - 1)) * 60 + ToInt(SubSeq(time, colon + 1, colon + 2))

\* C14: the visible list is ordered by date and then by time of day: of two
\* adjacent elements the first is dated no later than the second, and when
\* they have the same date its time in minutes since midnight is no greater,
\* also for times written without a leading zero.
C14_OrderedByDateThenMinutes ==
    \A k \in 1..(Len(filteredAppointments) - 1) :
        LET a == filteredAppointments[k]
            b == filteredAppointments[k + 1]
        IN  /\ IsoDateLeq(a.date, b.date)
            /\ a.date = b.date => MinutesOfDay(a.time) <= MinutesOfDay(b.time)

CountOf(P(_)) == Cardinality({k \in 1..Len(appointments) : P(appointments[k])})

\* C16: the 'upcoming' statistic is the number of appointments of the
\* collection dated today or later.
C16_UpcomingCountsTodayAndLater ==
    LET P(apt) == IsoDateLeq(today, apt.date) IN stats.upcoming = CountOf(P)

LeapYear(y) == (y % 4 = 0 /\ y % 100 # 0) \/ y % 400 = 0

\* length of month m (1..12) of year y
DaysInMonthRule(y, m) ==
    IF m = 2 THEN (IF LeapYear(y) THEN 29 ELSE 28)
    ELSE IF m \in {4, 6, 9, 11} THEN 30
    ELSE 31

\* weekday (0 = Sunday) of the 1st of month m of year y
WeekdayOfFirst(y, m) ==
    LET t  == <<0, 3, 2, 5, 0, 3, 5, 1, 4, 6, 2, 4>>
        yy == IF m < 3 THEN y - 1 ELSE y
    IN  (yy + (yy \div 4) - (yy \div 100) + (yy \div 400) + t[m] + 1) % 7

\* C19: the calendar index of the visible month is k blank entries followed by
\* one entry per day 1..n in increasing order, k the weekday of the 1st of the
\* month (0 = Sunday) and n the length of the month by the Gregorian rules; so
\* February of a leap year has 29 day entries and a month that starts on a
\* Sunday has no blank entry.
C19_CalendarShape ==
    LET days == calendarDays
        y == currentMonth.year
        m == currentMonth.month + 1
        k == WeekdayOfFirst(y, m)
        n == DaysInMonthRule(y, m)
    IN  /\ Len(days) = k + n
        /\ \A i \in 1..k : days[i] = NullDay
        /\ \A d \in 1..n : days[k + d] # NullDay /\ days[k + d].day = d
        /\ (m = 2 /\ LeapYear(y))
              => Cardinality({i \in 1..Len(days) : days[i] # NullDay}) = 29
        /\ k = 0 => days[1].day = 1

\* C19 witness: the calendar has been moved to February 2024, a leap-year
\* February that starts on a Thursday: 4 blank entries, then 29 day entries.
C19_Witness ==
    /\ currentMonth.year = 2024
    /\ currentMonth.month = 1
    /\ Len(calendarDays) = 33
    /\ calendarDays[4] = NullDay
    /\ calendarDays[33].day = 29

\* ---- C20
\* C20: whatever the tab, search, status and doctor filters, every non-blank
\* calendar entry for day d of the visible month carries the date of that day
\* written YYYY-MM-DD with two-digit month and day, the list of exactly the
\* appointments of the collection dated that string, and a hasAppointments
\* flag that is true exactly when that list is not empty.
C20_DayEntryContent ==
    LET days == calendarDays
    IN  \A i \in 1..Len(days) :
            days[i] # NullDay =>
                LET e == days[i]
                    P(apt) == apt.date = e.dateStr
                IN  /\ Len(e.dateStr) = 10
                    /\ e.dateStr[5] = "-" /\ e.dateStr[8] = "-"
                    /\ \A j \in {1, 2, 3, 4, 6, 7, 9, 10} :
                          \E v \in 1..10 : Digits[v] = e.dateStr[j]
                    /\ ToInt(SubSeq(e.dateStr, 1, 4)) = currentMonth.year
                    /\ ToInt(SubSeq(e.dateStr, 6, 7)) = currentMonth.month + 1
                    /\ ToInt(SubSeq(e.dateStr, 9, 10)) = e.day
                    /\ HoldsExactly(e.appointments, P)
                    /\ e.hasAppointments <=> e.appointments # <<>>

\* C20 witness: tab Past hides every appointment from the visible list while
\* the entry of a one-digit day of January 2026 holds the appointment dated
\* 2026-01-02.
C20_Witness ==
    /\ activeTab = "Past"
    /\ filteredAppointments = <<>>
    /\ currentMonth.year = 2026 /\ currentMonth.month = 0
    /\ \E i \in 1..Len(calendarDays) :
          /\ calendarDays[i].day = 2
          /\ calendarDays[i].dateStr = IsoDate(2026, 1, 2)
          /\ calendarDays[i].hasAppointments
          /\ Len(calendarDays[i].appointments) = 1

\* ---- C21
\* C21: month navigation moves by exactly one calendar month: a changeMonth(1)
\* step makes the calendar show the month that follows the one shown, a
\* changeMonth(-1) step the month that precedes it, the year rolling over at
\* December/January, whatever day of the month currentMonth holds.
C21_MovesOneMonth ==
    [][\A offset \in {-1, 1} :
          changeMonth(offset)
              => MonthIndex(currentMonth') = MonthIndex(currentMonth) + offset]_vars

\* ---- C22
\* C22: in every reachable state every appointment of the local collection and
\* every row of the store has one of the statuses Scheduled, Confirmed,
\* Completed, Cancelled.
C22_StatusAlwaysInEnum ==
    /\ \A k \in 1..Len(appointments) : appointments[k].status \in Statuses
    /\ \A k \in 1..Len(APPOINTMENTS) : APPOINTMENTS[k].status \in Statuses

\* ---- C23
\* C23: a step changes the local collection only if it is the step that ends
\* the initial fetch with its response, the step that issues a status update
\* (the optimistic apply) or the step that applies the resync of a failed
\* update; a step that changes the tab, the selected date, the search, status
\* or doctor filter or the visible month, and the step that receives the
\* success of a remote update, leave it unchanged.
C23_OnlyThreeWriters ==
    [][/\ appointments' # appointments
           => \/ fetchPc = "get_ok" /\ fetchPc' = "done"
              \/ \E c \in CallIds : IssuedNow(c)
              \/ \E c \in CallIds : calls[c].pc = "get_ok" /\ calls'[c].pc = "done"
       /\ ( \/ activeTab' # activeTab
            \/ selectedDate' # selectedDate
            \/ searchQuery' # searchQuery
            \/ statusFilter' # statusFilter
            \/ doctorFilter' # doctorFilter
            \/ currentMonth' # currentMonth
            \/ \E c \in CallIds : calls[c].pc = "put_ok" /\ calls'[c].pc = "done" )
           => appointments' = appointments]_vars

\* C23 witness: two updates of appointment 1 were issued, the one issued first
\* has succeeded while the other is still in flight and the store holds the
\* status of the first; the tab, the search and the month have been changed,
\* and the collection shows the optimistic status of the second.
C23_Witness ==
    /\ Succeeded(1)
    /\ calls[2].pc = "put_sent"
    /\ calls[1].status # calls[2].status
    /\ StoreStatus(APPOINTMENTS, 1) = calls[1].status
    /\ LocalStatus(appointments, 1) = calls[2].status
    /\ activeTab = "Past"
    /\ searchQuery # <<>>
    /\ currentMonth # DateOn(today)

\* ---- C24
\* C24: once the component has been torn down, no step writes the appointment
\* collection, the loading state or the error state, and no step shows the
\* failure notification: the result of a call that was in flight is discarded.
C24_NothingAfterTeardown ==
    [][~Mounted
          => /\ appointments' = appointments
             /\ isLoading' = isLoading
             /\ error' = error
             /\ \A c \in CallIds : calls'[c].alerted = calls[c].alerted]_vars

\* ---- C25
\* C25: a status update is never retried: every handleStatusUpdate invocation
\* has sent exactly one PUT, whether it succeeded or failed, and at most one
\* recovery GET, and none unless its PUT failed.
C25_OnePutAtMostOneGet ==
    \A c \in CallIds :
        /\ calls[c].pc = "idle" => calls[c].puts = 0 /\ calls[c].gets = 0
        /\ calls[c].pc # "idle"
              => /\ calls[c].puts = 1
                 /\ calls[c].gets <= 1
                 /\ ~calls[c].caught => calls[c].gets = 0

\* C25 witness: an update whose PUT failed has ended after one PUT and one
\* recovery GET, and the store still holds the seeded status.
C25_Witness ==
    /\ calls[1].pc = "done"
    /\ calls[1].caught
    /\ calls[1].id = 1
    /\ calls[1].status # SeedRow(1).status
    /\ calls[1].puts = 1
    /\ calls[1].gets = 1
    /\ StoreStatus(APPOINTMENTS, 1) = SeedRow(1).status

\* ---- C26
\* C26: the step that ends the initial fetch ends the loading state in both
\* outcomes: on failure the error is set and the collection is still empty; on
\* success the error is unset and the collection holds one record per row of
\* the store, in order, with the same id, date, time and status.
C26_InitialFetchEndsLoading ==
    [][/\ (fetchPc = "get_fail" /\ fetchPc' = "done")
           => /\ ~isLoading'
              /\ error' # NoError
              /\ appointments' = <<>>
       /\ (fetchPc = "get_ok" /\ fetchPc' = "done")
           => /\ ~isLoading'
              /\ error' = NoError
              /\ Len(appointments') = Len(APPOINTMENTS')
              /\ \A k \in 1..Len(APPOINTMENTS') :
                    /\ appointments'[k].id = APPOINTMENTS'[k].id
                    /\ appointments'[k].date = APPOINTMENTS'[k].appointment_date
                    /\ appointments'[k].time = APPOINTMENTS'[k].appointment_time
                    /\ appointments'[k].status = APPOINTMENTS'[k].status]_vars

\* C26 witness: the initial fetch has failed: loading has ended, the error
\* screen with its Retry button is what renders, the collection is empty.
C26_Witness ==
    /\ fetchPc = "done"
    /\ ~isLoading
    /\ error = LoadError
    /\ appointments = <<>>

\* ---- C27
\* the local calendar date of the instant the dashboard was opened at
\* (currentMonth is not navigated where this is used)
LocalDateStr == IsoDate(currentMonth.year, currentMonth.month + 1, currentMonth.date)

\* C27: at every time of day and in every time zone, today is the local
\* calendar date, so the appointments dated on the local date are the ones
\* counted by the 'today' statistic and shown by the Today tab.
C27_TodayIsLocalDate ==
    /\ today = LocalDateStr
    /\ LET P(apt) == apt.date = LocalDateStr IN stats.today = CountOf(P)
    /\ (activeTab = "Today" /\ NoOtherFilter)
          => LET P(apt) == apt.date = LocalDateStr IN HoldsExactly(filteredAppointments, P)

\* ---- C28
\* the search predicate taken on the query with its surrounding whitespace
\* removed
TrimmedSearchPredicate(apt) ==
    LET q == trim(searchQuery)
    IN  q # <<>> =>
            \/ OccursIgnoringCase(q, apt.name)
            \/ OccursIgnoringCase(q, apt.doctorName)
            \/ OccursIgnoringCase(q, apt.reason)

\* C28: a search query with leading or trailing whitespace selects exactly
\* the appointments the query without that whitespace selects: the visible
\* list is the one the trimmed query gives (with the other predicates as
\* they are).
C28_TrimmedQueryIsMatched ==
    LET P(apt) == /\ TabPredicate(apt)
                  /\ SelectedDatePredicate(apt)
                  /\ TrimmedSearchPredicate(apt)
                  /\ StatusPredicate(apt)
                  /\ DoctorPredicate(apt)
    IN  HoldsExactly(filteredAppointments, P)

\* ---- C29
\* how many times the record occurs in the list
Occurrences(list, apt) == Cardinality({k \in 1..Len(list) : list[k] = apt})

\* C29: for every collection and every today, with no other filter active,
\* the Upcoming and the Past tab lists are disjoint and together hold every
\* appointment of the All tab list exactly once, and the Today tab list is
\* contained in the Upcoming tab list.
C29_TabsPartition ==
    NoOtherFilter =>
        LET all == filteredAppointmentsFor("All")
            upcoming == filteredAppointmentsFor("Upcoming")
            past == filteredAppointmentsFor("Past")
            todays == filteredAppointmentsFor("Today")
        IN  /\ \A k \in 1..Len(upcoming) : Occurrences(past, upcoming[k]) = 0
            /\ \A k \in 1..Len(all) :
                  Occurrences(upcoming, all[k]) + Occurrences(past, all[k]) = 1
            /\ Len(upcoming) + Len(past) = Len(all)
            /\ \A k \in 1..Len(todays) : Occurrences(upcoming, todays[k]) = 1

\* C29 witness: the Past tab with no other filter on a collection of two, one
\* appointment dated today (it is on the Upcoming and Today lists) and one
\* dated before today (the only one on the Past list).
C29_Witness ==
    /\ NoOtherFilter
    /\ activeTab = "Past"
    /\ Len(appointments) = 2
    /\ Len(filteredAppointments) = 1
    /\ filteredAppointments[1].date # today
    /\ IsoDateLeq(filteredAppointments[1].date, today)
    /\ \E k \in 1..2 : appointments[k].date = today

\* ---- C30
\* C30: changing the tab always clears selectedDate and leaves the search
\* query, the status filter, the doctor filter, the visible month and the
\* collection unchanged; selecting a calendar date sets selectedDate to that
\* date, or clears it when it is the selected date already, and leaves the
\* active tab (and the other filters) unchanged.
C30_TabClearsDateSelectToggles ==
    [][/\ \A tab \in Tabs :
            handleTabChange(tab) =>
                /\ activeTab' = tab
                /\ selectedDate' = NoDate
                /\ UNCHANGED <<searchQuery, statusFilter, doctorFilter,
                               currentMonth, appointments>>
       /\ activeTab' # activeTab =>
            /\ selectedDate' = NoDate
            /\ UNCHANGED <<searchQuery, statusFilter, doctorFilter,
                           currentMonth, appointments>>
       /\ \A dateStr \in DateChoices :
            handleDateSelect(dateStr) =>
                /\ selectedDate' = (IF dateStr = selectedDate THEN NoDate ELSE dateStr)
                /\ UNCHANGED <<activeTab, searchQuery, statusFilter, doctorFilter,
                               currentMonth, appointments>>
       /\ selectedDate' \notin {selectedDate, NoDate} => activeTab' = activeTab
    ]_vars

\* C30 witness: a date had been selected and a search and a status filter
\* set; the tab was then changed to Past: the date selection is gone, the
\* search and the status filter are still there.
C30_Witness ==
    /\ activeTab = "Past"
    /\ selectedDate = NoDate
    /\ SearchActive
    /\ statusFilter # AllStatus
    /\ doctorFilter # AllDoctors

====
